---- MODULE Spec2Model ----
(***************************************************************************)
(* State-machine model of SocketClient (src/src/utils/socket.ts): a        *)
(* WebSocket wrapper with heartbeat, bounded automatic reconnection and    *)
(* four subscriber sets.                                                   *)
(*                                                                         *)
(* The browser is modelled as far as the client can observe it:            *)
(*   - every transport made by `new WebSocket` keeps the callbacks that    *)
(*     connect() bound to it until its close event has been dispatched     *)
(*     (set `bound`), whether or not this.ws still refers to it;           *)
(*   - setTimeout / setInterval timers stay pending until they fire or are *)
(*     cleared through their id (sets `timeouts`, `intervals`), whether or *)
(*     not the client still holds the id;                                  *)
(*   - all handlers run on one event loop, so every action below is one    *)
(*     whole public call or one whole event callback.                      *)
(* Subscriber callbacks either return or throw; they do not call back into *)
(* the client while they run.                                              *)
(***************************************************************************)
EXTENDS Integers, Sequences, FiniteSets, TLC

\* ------------------------------------------------------------------ bounds
\* Largest number of connection chains (bound transports plus pending
\* reconnect timers) the caller's connect() calls may build up.
MaxChains == 2
\* The same ceiling under the specification with subscribers (SpecSubs).
MaxChainsSubs == 1
\* Largest value of options.reconnectAttempts handed to the constructor.
MaxOpt == 2
\* Number of distinct handler functions the caller owns.
MaxHandlers == 2
\* Largest number of onMessage/onOpen/onClose/onError calls in a behaviour.
MaxRegs == 2

\* ------------------------------------------------------- program constants
Null == 0
CONNECTING == 0
OPEN == 1
CLOSING == 2
CLOSED == 3
DefaultReconnectAttempts == 5

MaxLive == IF MaxChains > MaxChainsSubs THEN MaxChains ELSE MaxChainsSubs
SockIds == 1..MaxLive
\* pending reconnect timers <= MaxLive, one heartbeat interval, one stale id
TimerIds == 1..(MaxLive + 2)
OptValues == 0..MaxOpt
H == 1..MaxHandlers
Kinds == {"message", "open", "close", "error"}
\* inbound frames: JSON text of a number, JSON text of a string, malformed text
Payloads == {"1", "\"a\"", "a"}
Ping == "{\"type\":\"ping\"}"

VARIABLES
    ws,                         \* this.ws: Null or the id of a transport
    readyState,                 \* readyState of every transport id
    bound,                      \* transports whose callbacks can still fire
    options,                    \* the options object given to the constructor
    reconnectAttempts,          \* this.reconnectAttempts
    currentReconnectAttempts,   \* this.currentReconnectAttempts
    heartbeatTimer,             \* this.heartbeatTimer: Null or a timer id
    reconnectTimer,             \* this.reconnectTimer: Null or a timer id
    isManualClose,              \* this.isManualClose
    handlers,                   \* the four Sets, in insertion order
    timeouts,                   \* pending setTimeout ids
    intervals,                  \* pending setInterval ids
    unsubs,                     \* unsubscribe closures returned so far
    inPlace,                    \* per kind and handler: the registration in the Set
    nRegs,                      \* number of on*() calls made so far
    attemptsScheduled,          \* retries scheduled since construction / last open
    userClosed,                 \* close() called and connect() not called since
    last,                       \* what the last call or callback did
    http                        \* the HttpRequest call in progress and its outcome

vars == <<ws, readyState, bound, options, reconnectAttempts,
          currentReconnectAttempts, heartbeatTimer, reconnectTimer,
          isManualClose, handlers, timeouts, intervals, unsubs, inPlace,
          nRegs, attemptsScheduled, userClosed, last, http>>

\* the state of the SocketClient
sockVars == <<ws, readyState, bound, options, reconnectAttempts,
              currentReconnectAttempts, heartbeatTimer, reconnectTimer,
              isManualClose, handlers, timeouts, intervals, unsubs, inPlace,
              nRegs, attemptsScheduled, userClosed, last>>

connVars == <<ws, readyState, bound>>
timerVars == <<heartbeatTimer, reconnectTimer, timeouts, intervals>>
subVars == <<handlers, unsubs, inPlace, nRegs>>
cfgVars == <<options, reconnectAttempts>>

\* ----------------------------------------------------------------- helpers
Range(s) == {s[i] : i \in 1..Len(s)}

Min(S) == CHOOSE x \in S : \A y \in S : x <= y

\* Set.prototype.add: appended in insertion order unless already present
SetAdd(s, h) == IF h \in Range(s) THEN s ELSE Append(s, h)

\* Set.prototype.delete
SetDelete(s, h) == SelectSeq(s, LAMBDA x : x # h)

\* the id the browser gives the next timer: never one that is pending or held
FreshTimer(used) == Min(TimerIds \ used)

\* the id of the next transport object
FreshSock == Min(SockIds \ bound)

\* connection chains alive: each bound transport can schedule one retry when
\* it closes, each pending retry makes one transport when it fires
Chains == Cardinality(bound) + Cardinality(timeouts)

\* The record of one call or callback: its name, the subscriber invocations it
\* made in order, whether an exception left it, whether it called
\* reconnect(), whether that scheduled a retry, what it passed to
\* WebSocket.send, and the unsubscribe closure it ran (if it was one); for a
\* message event also event.data.
NoData == ""

Last(op, invoked, threw, reconnectCalled, scheduled, sent, token) ==
    [op |-> op, invoked |-> invoked, threw |-> threw,
     reconnectCalled |-> reconnectCalled, scheduled |-> scheduled,
     sent |-> sent, token |-> token, data |-> NoData]

NoArg == [type |-> "none", text |-> ""]

NoToken == [kind |-> "none", h |-> 0, reg |-> 0]

Quiet(op) == Last(op, <<>>, FALSE, FALSE, FALSE, <<>>, NoToken)

\* ------------------------------------------------------------- HttpRequest
\* (src/unnamed/part_000) One call of get/post/put/delete/patch/upload/
\* download: the axios request with its two interceptors and the promise
\* the caller is handed.
Methods == {"get", "post", "put", "delete", "patch", "upload", "download"}

\* HTTP status of the answer; NetworkError: no answer arrived
NetworkError == 0
Statuses == {NetworkError, 200, 204, 401, 404, 500}

\* the code field of a JSON body; Undefined: the body has no such field
Undefined == -1
BodyCodes == {Undefined, 0, 200, 401, 403, 404, 500}

HttpIdle ==
    [phase |-> "idle", method |-> "none", blob |-> FALSE, auth |-> FALSE,
     status |-> NetworkError, code |-> Undefined, settled |-> "none",
     value |-> "none"]

\* download() asks for responseType 'blob', every other method for JSON
WantsBlob(m) == m = "download"

\* axios' default validateStatus
StatusOk(status) == status >= 200 /\ status < 300

\* response.data.code as the response interceptor reads it: a Blob has no
\* code field
CodeSeen(blob, code) == IF blob THEN Undefined ELSE code

\* data.code === 200 || data.code === 0
InterceptorAccepts(code) == code = 200 \/ code = 0

\* the promise returned to the caller once the answer (status, body code)
\* has gone through the response interceptor and the method's then/catch
Settle(h, status, code) ==
    IF ~StatusOk(status)
    THEN [h EXCEPT !.phase = "settled", !.status = status, !.code = code,
                   !.settled = "rejected", !.value = "error"]
    ELSE IF InterceptorAccepts(CodeSeen(h.blob, code))
    THEN [h EXCEPT !.phase = "settled", !.status = status, !.code = code,
                   !.settled = "resolved",
                   !.value = IF h.method = "download" THEN "blob"
                             ELSE "data.data"]
    ELSE [h EXCEPT !.phase = "settled", !.status = status, !.code = code,
                   !.settled = "rejected", !.value = "data"]

\* a method of HttpRequest is called; the request interceptor adds the
\* Authorization header when localStorage holds a token
HttpCall ==
    \E m \in Methods : \E token \in BOOLEAN :
        /\ http.phase # "sent"
        /\ http' = [HttpIdle EXCEPT !.phase = "sent", !.method = m,
                                    !.blob = WantsBlob(m), !.auth = token]
        /\ UNCHANGED sockVars

\* the answer (or a network error) arrives and the promise settles
HttpSettle ==
    \E status \in Statuses : \E code \in BodyCodes :
        /\ http.phase = "sent"
        /\ http' = Settle(http, status, code)
        /\ UNCHANGED sockVars

NextHttp ==
    \/ HttpCall
    \/ HttpSettle

\* ------------------------------------------------------------- constructor
\* options.reconnectAttempts || 5
ReconnectAttemptsOf(opts) ==
    IF opts.reconnectAttempts = 0 THEN DefaultReconnectAttempts
    ELSE opts.reconnectAttempts

Init ==
    /\ ws = Null
    /\ readyState = [s \in SockIds |-> CLOSED]
    /\ bound = {}
    /\ options \in [reconnectAttempts : OptValues]
    /\ reconnectAttempts = ReconnectAttemptsOf(options)
    /\ currentReconnectAttempts = 0
    /\ heartbeatTimer = Null
    /\ reconnectTimer = Null
    /\ isManualClose = FALSE
    /\ handlers = [k \in Kinds |-> <<>>]
    /\ timeouts = {}
    /\ intervals = {}
    /\ unsubs = {}
    /\ inPlace = [k \in Kinds |-> [h \in H |-> 0]]
    /\ nRegs = 0
    /\ attemptsScheduled = 0
    /\ userClosed = FALSE
    /\ last = Quiet("new")
    /\ http = HttpIdle

\* ------------------------------------------------------------ getReadyState
\* this.ws?.readyState ?? WebSocket.CLOSED
getReadyState == IF ws = Null THEN CLOSED ELSE readyState[ws]

\* a slip in the guard: the wrong readyState constant
IsOpenWrongState == ws # Null /\ readyState[ws] = CONNECTING

\* this.ws?.readyState === WebSocket.OPEN
IsOpen == ws # Null /\ readyState[ws] = OPEN

\* --------------------------------------------------------------- reconnect
ReconnectExhausted == currentReconnectAttempts >= reconnectAttempts

\* reconnect(), run when the pending timeouts are tos, the pending intervals
\* ivs and this.heartbeatTimer is hb. The new id overwrites
\* this.reconnectTimer; no clearTimeout precedes it.
reconnect(tos, ivs, hb) ==
    IF ReconnectExhausted
    THEN /\ timeouts' = tos
         /\ UNCHANGED <<currentReconnectAttempts, reconnectTimer,
                        attemptsScheduled>>
    ELSE LET t == FreshTimer(tos \cup ivs \cup {hb})
         IN /\ currentReconnectAttempts' = currentReconnectAttempts + 1
            /\ attemptsScheduled' = attemptsScheduled + 1
            /\ reconnectTimer' = t
            /\ timeouts' = tos \cup {t}

\* a path on which reconnect() is not called
noReconnect(tos) ==
    /\ timeouts' = tos
    /\ UNCHANGED <<currentReconnectAttempts, reconnectTimer,
                   attemptsScheduled>>

\* ----------------------------------------------------------------- connect
\* a slip in connect(): the catch block logs the error and returns
connectSwallows(op, tos) ==
    IF IsOpen
    THEN /\ noReconnect(tos)
         /\ UNCHANGED connVars
         /\ last' = Quiet(op)
    ELSE \E throws \in BOOLEAN :
            IF throws
            THEN /\ noReconnect(tos)
                 /\ UNCHANGED connVars
                 /\ last' = Quiet(op)
            ELSE /\ ws' = FreshSock
                 /\ readyState' = [readyState EXCEPT ![FreshSock] = CONNECTING]
                 /\ bound' = bound \cup {FreshSock}
                 /\ noReconnect(tos)
                 /\ last' = Quiet(op)

\* The body of connect(), called by the caller (op = "connect") or by the
\* reconnect timer's callback (op = "reconnectTimer"); tos are the timeouts
\* pending when it runs. `new WebSocket` either throws or returns a
\* transport in state CONNECTING.
connect(op, tos) ==
    IF IsOpen
    THEN /\ noReconnect(tos)
         /\ UNCHANGED connVars
         /\ last' = Quiet(op)
    ELSE \E throws \in BOOLEAN :
            IF throws
            THEN /\ reconnect(tos, intervals, heartbeatTimer)
                 /\ UNCHANGED connVars
                 /\ last' = Last(op, <<>>, FALSE, TRUE,
                                 ~ReconnectExhausted, <<>>, NoToken)
            ELSE /\ ws' = FreshSock
                 /\ readyState' = [readyState EXCEPT ![FreshSock] = CONNECTING]
                 /\ bound' = bound \cup {FreshSock}
                 /\ noReconnect(tos)
                 /\ last' = Quiet(op)

\* the caller calls connect()
Connect(maxChains) ==
    /\ IsOpen \/ Chains < maxChains
    /\ connect("connect", timeouts)
    /\ userClosed' = FALSE
    /\ UNCHANGED <<heartbeatTimer, intervals, isManualClose>>
    /\ UNCHANGED <<http, cfgVars, subVars>>

\* a pending reconnect timer fires: () => this.connect()
ReconnectTimerFire ==
    \E t \in timeouts :
        /\ connect("reconnectTimer", timeouts \ {t})
        /\ UNCHANGED <<heartbeatTimer, intervals, isManualClose, userClosed>>
        /\ UNCHANGED <<http, cfgVars, subVars>>

\* -------------------------------------------------------------------- send
\* a slip in send(): the payload goes to the transport whenever one exists
SendUnguarded ==
    \E p \in Payloads :
        /\ last' = Last("send", <<>>, FALSE, FALSE, FALSE,
                        IF ws # Null THEN <<p>> ELSE <<>>, NoToken)
        /\ UNCHANGED <<connVars, timerVars, http, cfgVars, subVars,
                       currentReconnectAttempts, isManualClose,
                       attemptsScheduled, userClosed>>

Send ==
    \E p \in Payloads :
        /\ last' = Last("send", <<>>, FALSE, FALSE, FALSE,
                        IF IsOpen THEN <<p>> ELSE <<>>, NoToken)
        /\ UNCHANGED <<connVars, timerVars, http, cfgVars, subVars,
                       currentReconnectAttempts, isManualClose,
                       attemptsScheduled, userClosed>>

\* ------------------------------------------------------------------- close
\* WebSocket.close(): CONNECTING and OPEN become CLOSING, else nothing
TransportClose(rs) == IF rs \in {CONNECTING, OPEN} THEN CLOSING ELSE rs

\* stopHeartbeat(): clearInterval of the held id, if any
stopHeartbeat ==
    /\ heartbeatTimer' = Null
    /\ intervals' = intervals \ {heartbeatTimer}

\* stopReconnect(): clearTimeout of the held id, if any
stopReconnect ==
    /\ reconnectTimer' = Null
    /\ timeouts' = timeouts \ {reconnectTimer}

Close ==
    /\ isManualClose' = TRUE
    /\ stopHeartbeat
    /\ stopReconnect
    /\ readyState' = IF ws = Null THEN readyState
                     ELSE [readyState EXCEPT ![ws] = TransportClose(@)]
    /\ ws' = Null
    /\ userClosed' = TRUE
    /\ last' = Quiet("close")
    /\ UNCHANGED <<bound, http, cfgVars, subVars, currentReconnectAttempts,
                   attemptsScheduled>>

\* ------------------------------------------------------- subscriber fan-out
\* Set.prototype.forEach(handler => handler(arg)) over seq when the handlers
\* in faulty throw: the calls made, in order, up to the first throw
Throws(seq, faulty) == \E i \in 1..Len(seq) : seq[i] \in faulty

forEach(seq, faulty, arg) ==
    LET n == IF Throws(seq, faulty)
             THEN Min({i \in 1..Len(seq) : seq[i] \in faulty})
             ELSE Len(seq)
    IN [i \in 1..n |-> [h |-> seq[i], arg |-> arg]]

\* JSON.parse on the frames of Payloads
JSONParse(p) ==
    CASE p = "1" -> [ok |-> TRUE, value |-> [type |-> "number", text |-> "1"]]
      [] p = "\"a\"" -> [ok |-> TRUE, value |-> [type |-> "string", text |-> "a"]]
      [] OTHER -> [ok |-> FALSE, value |-> NoArg]

\* event.data as it arrived
Raw(p) == [type |-> "string", text |-> p]

\* ------------------------------------------------------------ startHeartbeat
\* stopHeartbeat(), then setInterval
startHeartbeat ==
    LET t == FreshTimer(timeouts \cup (intervals \ {heartbeatTimer})
                        \cup {reconnectTimer})
    IN /\ heartbeatTimer' = t
       /\ intervals' = (intervals \ {heartbeatTimer}) \cup {t}

\* the heartbeat interval fires: a ping goes out if this.ws is open
HeartbeatTick ==
    \E t \in intervals :
        /\ last' = Last("heartbeat", <<>>, FALSE, FALSE, FALSE,
                        IF IsOpen THEN <<Ping>> ELSE <<>>, NoToken)
        /\ UNCHANGED <<connVars, timerVars, http, cfgVars, subVars,
                       currentReconnectAttempts, isManualClose,
                       attemptsScheduled, userClosed>>

\* -------------------------------------------------------- transport events
\* a slip in handleOpen(): the attempt counter is not reset
SockOpenKeepsCount ==
    \E s \in bound : \E faulty \in SUBSET Range(handlers["open"]) :
        /\ readyState[s] = CONNECTING
        /\ readyState' = [readyState EXCEPT ![s] = OPEN]
        /\ startHeartbeat
        /\ last' = Last("handleOpen", forEach(handlers["open"], faulty, NoArg),
                        Throws(handlers["open"], faulty), FALSE, FALSE, <<>>,
                        NoToken)
        /\ UNCHANGED <<ws, bound, reconnectTimer, timeouts, isManualClose,
                       userClosed, http, cfgVars, subVars,
                       currentReconnectAttempts, attemptsScheduled>>

\* open event of transport s: handleOpen()
SockOpen ==
    \E s \in bound : \E faulty \in SUBSET Range(handlers["open"]) :
        /\ readyState[s] = CONNECTING
        /\ readyState' = [readyState EXCEPT ![s] = OPEN]
        /\ currentReconnectAttempts' = 0
        /\ attemptsScheduled' = 0
        /\ startHeartbeat
        /\ last' = Last("handleOpen", forEach(handlers["open"], faulty, NoArg),
                        Throws(handlers["open"], faulty), FALSE, FALSE, <<>>,
                        NoToken)
        /\ UNCHANGED <<ws, bound, reconnectTimer, timeouts, isManualClose,
                       userClosed, http, cfgVars, subVars>>

\* the invocations handleMessage makes for frame p when the handlers in f1
\* throw on the parsed value and those in f2 throw on the raw frame
MessageCaught(p, f1) ==
    ~JSONParse(p).ok \/ Throws(handlers["message"], f1)

MessageInvoked(p, f1, f2) ==
    (IF JSONParse(p).ok
     THEN forEach(handlers["message"], f1, JSONParse(p).value)
     ELSE <<>>)
    \o (IF MessageCaught(p, f1)
        THEN forEach(handlers["message"], f2, Raw(p))
        ELSE <<>>)

\* message event of transport s: handleMessage(event)
SockMessage ==
    \E s \in bound : \E p \in Payloads :
    \E f1 \in SUBSET Range(handlers["message"]) :
    \E f2 \in SUBSET Range(handlers["message"]) :
        /\ readyState[s] = OPEN
        /\ last' = [Last("handleMessage", MessageInvoked(p, f1, f2),
                         MessageCaught(p, f1)
                           /\ Throws(handlers["message"], f2),
                         FALSE, FALSE, <<>>, NoToken)
                        EXCEPT !.data = p]
        /\ UNCHANGED <<connVars, timerVars, http, cfgVars, subVars,
                       currentReconnectAttempts, isManualClose,
                       attemptsScheduled, userClosed>>

\* a slip in handleError(): the error is treated as a close and retried
SockErrorReconnects ==
    \E s \in bound : \E faulty \in SUBSET Range(handlers["error"]) :
        /\ readyState[s] # CLOSED
        /\ readyState' = [readyState EXCEPT ![s] = CLOSED]
        /\ reconnect(timeouts, intervals, heartbeatTimer)
        /\ last' = Last("handleError",
                        forEach(handlers["error"], faulty, NoArg),
                        Throws(handlers["error"], faulty), TRUE,
                        ~ReconnectExhausted, <<>>, NoToken)
        /\ UNCHANGED <<ws, bound, heartbeatTimer, intervals, http, cfgVars, subVars,
                       isManualClose, userClosed>>

\* error event of transport s: the browser sets it CLOSED, then handleError()
SockError ==
    \E s \in bound : \E faulty \in SUBSET Range(handlers["error"]) :
        /\ readyState[s] # CLOSED
        /\ readyState' = [readyState EXCEPT ![s] = CLOSED]
        /\ last' = Last("handleError",
                        forEach(handlers["error"], faulty, NoArg),
                        Throws(handlers["error"], faulty), FALSE, FALSE, <<>>,
                        NoToken)
        /\ UNCHANGED <<ws, bound, timerVars, http, cfgVars, subVars,
                       currentReconnectAttempts, isManualClose,
                       attemptsScheduled, userClosed>>

\* close event of transport s, its last event: handleClose()
SockClose ==
    \E s \in bound : \E faulty \in SUBSET Range(handlers["close"]) :
        LET threw == Throws(handlers["close"], faulty)
            calls == ~threw /\ ~isManualClose
        IN /\ readyState' = [readyState EXCEPT ![s] = CLOSED]
           /\ bound' = bound \ {s}
           /\ stopHeartbeat
           /\ IF calls
              THEN reconnect(timeouts, intervals \ {heartbeatTimer}, Null)
              ELSE noReconnect(timeouts)
           /\ last' = Last("handleClose",
                           forEach(handlers["close"], faulty, NoArg), threw,
                           calls, calls /\ ~ReconnectExhausted, <<>>, NoToken)
           /\ UNCHANGED <<ws, isManualClose, userClosed, http, cfgVars, subVars>>

\* ------------------------------------------------------------ subscriptions
\* onMessage / onOpen / onClose / onError (handler h): Set.add, and the
\* closure () => set.delete(h) is returned. The closure is recorded with the
\* number of the call that returned it.
On ==
    \E k \in Kinds : \E h \in H :
        /\ nRegs < MaxRegs
        /\ nRegs' = nRegs + 1
        /\ handlers' = [handlers EXCEPT ![k] = SetAdd(@, h)]
        /\ unsubs' = unsubs \cup {[kind |-> k, h |-> h, reg |-> nRegs + 1]}
        /\ inPlace' = [inPlace EXCEPT ![k][h] =
                          IF h \in Range(handlers[k]) THEN @ ELSE nRegs + 1]
        /\ last' = Quiet("on")
        /\ UNCHANGED <<connVars, timerVars, http, cfgVars,
                       currentReconnectAttempts, isManualClose,
                       attemptsScheduled, userClosed>>

\* the caller runs an unsubscribe closure it was given
Unsubscribe ==
    \E u \in unsubs :
        /\ handlers' = [handlers EXCEPT ![u.kind] = SetDelete(@, u.h)]
        /\ inPlace' = [inPlace EXCEPT ![u.kind][u.h] = 0]
        /\ last' = Last("unsubscribe", <<>>, FALSE, FALSE, FALSE, <<>>, u)
        /\ UNCHANGED <<unsubs, nRegs, connVars, timerVars, http, cfgVars,
                       currentReconnectAttempts, isManualClose,
                       attemptsScheduled, userClosed>>

\* ---------------------------------------------------------- specifications
ConnectUser == Connect(MaxChains)

ConnectUserSubs == Connect(MaxChainsSubs)

\* the client without subscribers
Next ==
    \/ ConnectUser
    \/ ReconnectTimerFire
    \/ Send
    \/ Close
    \/ HeartbeatTick
    \/ SockOpen
    \/ SockMessage
    \/ SockError
    \/ SockClose

Spec == Init /\ [][Next]_vars

\* the client with subscribers, the caller holding one connection chain
NextSubs ==
    \/ ConnectUserSubs
    \/ ReconnectTimerFire
    \/ Send
    \/ Close
    \/ HeartbeatTick
    \/ SockOpen
    \/ SockMessage
    \/ SockError
    \/ SockClose
    \/ On
    \/ Unsubscribe

SpecSubs == Init /\ [][NextSubs]_vars

\* the HTTP client alone
SpecHttp == Init /\ [][NextHttp]_vars

\* The scenario in which every connection attempt fails: the caller
\* registers its subscribers, calls connect() once and nothing else, and no
\* transport ever opens. The caller does make its call, every pending timer
\* fires and every attempt ends with the transport's close event.
BeforeConnect == last.op \in {"new", "on"}

PreSubscribe ==
    /\ BeforeConnect
    /\ On

InitialConnect ==
    /\ BeforeConnect
    /\ Connect(MaxChains)

NextFail ==
    \/ PreSubscribe
    \/ InitialConnect
    \/ ReconnectTimerFire
    \/ SockError
    \/ SockClose

SpecFail ==
    /\ Init
    /\ [][NextFail]_vars
    /\ WF_vars(InitialConnect)
    /\ WF_vars(ReconnectTimerFire)
    /\ WF_vars(SockClose)

\* ================================================================== claims
\* the handlers a callback invoked, in the order it invoked them
InvokedHandlers == [i \in 1..Len(last.invoked) |-> last.invoked[i].h]

\* C1: after close(), and until the caller calls connect() again, no reconnect
\* timer fires and no new transport is constructed.
C1_NoReconnectAfterClose ==
    [][(userClosed /\ userClosed')
         => (last'.op # "reconnectTimer" /\ bound' \subseteq bound)]_vars

\* C2: for every configured maxReconnectAttempts = N >= 0 (N = 0 included),
\* at most N retries are scheduled since construction or since the last
\* successful open.
C2_AtMostNAttempts == attemptsScheduled <= options.reconnectAttempts

\* C3: connect() after close() starts a fresh lifecycle: when the caller's last
\* call among close()/connect() was connect() and the current transport then
\* closes, the close handler invokes the reconnect procedure.
C3_FreshLifecycleReconnects ==
    [][(last'.op = "handleClose" /\ ~userClosed /\ ws \in bound
          /\ ws \notin bound')
         => last'.reconnectCalled]_vars

\* C4: right after any close() call getReadyState() reports CLOSED, no
\* heartbeat timer and no reconnect timer is pending, no error was raised and
\* no subscriber was notified.
C4_CloseLeavesNothingPending ==
    last.op = "close"
      => /\ getReadyState = CLOSED
         /\ timeouts = {}
         /\ intervals = {}
         /\ ~last.threw
         /\ last.invoked = <<>>

\* C5: in every reachable state at most one reconnect timer is pending.
C5_OneReconnectTimer == Cardinality(timeouts) <= 1

\* C6: for one transport event no subscriber is invoked more than once.
C6_InvokedAtMostOnce ==
    \A i, j \in 1..Len(last.invoked) :
        i # j => last.invoked[i].h # last.invoked[j].h

\* C7: on a transport open event every registered open-subscriber is invoked,
\* in registration order, also when one of them throws.
C7_OpenInvokesAll ==
    last.op = "handleOpen" => InvokedHandlers = handlers["open"]

\* C8: on every transport close event received while isManualClose is false
\* the heartbeat timer is stopped, every close-subscriber is invoked and the
\* reconnect procedure is invoked, also when subscribers fail.
C8_CloseStopsNotifiesReconnects ==
    (last.op = "handleClose" /\ ~isManualClose)
      => /\ heartbeatTimer = Null
         /\ intervals = {}
         /\ InvokedHandlers = handlers["close"]
         /\ last.reconnectCalled

\* C9: an unsubscribe function removes only the registration it was returned
\* for: run while a later registration of the same handler is in place, it
\* leaves that registration (and every other one) in place.
C9_UnsubscribeExactlyOwn ==
    [][(last'.op = "unsubscribe"
          /\ last'.token.reg < inPlace[last'.token.kind][last'.token.h])
         => handlers' = handlers]_vars

\* C10: a connect() call made while the current transport is Open replaces no
\* transport handle, constructs no transport, and leaves timers, attempt
\* counter and subscriber sets unchanged.
C10_ConnectWhileOpenIsNoOp ==
    [][(last'.op = "connect" /\ getReadyState = OPEN)
         => UNCHANGED <<ws, readyState, bound, heartbeatTimer, reconnectTimer,
                        timeouts, intervals, currentReconnectAttempts,
                        isManualClose, handlers>>]_vars

\* C10 witness: connect() has just returned and the transport is still Open,
\* with a heartbeat running and retries used before
C10_Witness ==
    /\ last.op = "connect"
    /\ getReadyState = OPEN
    /\ heartbeatTimer # Null
    /\ reconnectTimer # Null

\* the step is a connect() (the caller's or the retry timer's) in which
\* `new WebSocket` threw: this.ws was not open and no transport was made
ConstructionThrew ==
    /\ last'.op \in {"connect", "reconnectTimer"}
    /\ getReadyState # OPEN
    /\ bound' = bound

\* the reconnect procedure ran in this step with the shared counter and
\* ceiling: below the ceiling one attempt is consumed and one retry timer is
\* added, at the ceiling nothing is scheduled
SharedReconnectRule(fired) ==
    /\ last'.reconnectCalled
    /\ IF currentReconnectAttempts < reconnectAttempts
       THEN /\ currentReconnectAttempts' = currentReconnectAttempts + 1
            /\ last'.scheduled
            /\ Cardinality(timeouts') = Cardinality(timeouts) - fired + 1
            /\ reconnectTimer' \in timeouts'
       ELSE /\ currentReconnectAttempts' = currentReconnectAttempts
            /\ ~last'.scheduled
            /\ Cardinality(timeouts') = Cardinality(timeouts) - fired

\* C11: when transport construction throws inside connect(), no exception
\* reaches the caller and the reconnect procedure is invoked at once, with the
\* same attempt counter and ceiling as a reconnect triggered by a close event.
C11_ConstructionFailureReconnects ==
    [][/\ ConstructionThrew
          => /\ ~last'.threw
             /\ SharedReconnectRule(IF last'.op = "reconnectTimer"
                                    THEN 1 ELSE 0)
       /\ (last'.op = "handleClose" /\ last'.reconnectCalled)
          => SharedReconnectRule(0)]_vars

\* C11 witness: the caller's connect() threw in construction after earlier
\* attempts were used, and a retry was scheduled
C11_Witness ==
    /\ last.op = "connect"
    /\ last.reconnectCalled
    /\ last.scheduled
    /\ currentReconnectAttempts >= 2
    /\ bound = {}

\* connect() was called, no transport is bound and no retry is pending
Quiescent ==
    /\ ~BeforeConnect
    /\ bound = {}
    /\ timeouts = {}

\* C12: with maxReconnectAttempts = N >= 1, when every attempt fails to open
\* and the caller makes no call after the initial connect(), exactly N retries
\* have been scheduled when the client comes to rest (transport closed, no
\* pending reconnect timer, no further attempt).
C12_ExactlyNAtRest ==
    (options.reconnectAttempts >= 1 /\ Quiescent)
      => /\ attemptsScheduled = options.reconnectAttempts
         /\ getReadyState = CLOSED

\* the transport this.ws refers to has had its close event
CurrentTransportClosed == ws # Null /\ ws \notin bound

\* C13: after the client's transport has closed no heartbeat message is sent
\* and no heartbeat timer remains live, in every interleaving of connect()
\* calls and open/close events of the transports the client created.
C13_NoHeartbeatAfterClose ==
    CurrentTransportClosed
      => /\ intervals = {}
         /\ (last.op = "heartbeat" => last.sent = <<>>)

\* C14: after every handled transport open event the attempt counter is 0,
\* whatever number of failed attempts preceded it.
C14_OpenResetsAttempts ==
    last.op = "handleOpen"
      => /\ currentReconnectAttempts = 0
         /\ attemptsScheduled = 0

\* C14 witness: an open event was handled on a client that had scheduled a
\* retry before (its timer id is still held) and it left the counter at 0
C14_Witness ==
    /\ last.op = "handleOpen"
    /\ options.reconnectAttempts = 2
    /\ reconnectTimer # Null
    /\ currentReconnectAttempts = 0
    /\ IsOpen

\* what the subscribers are to be given for frame p: the parsed value when
\* p is valid JSON text, the frame itself otherwise
Delivered(p) ==
    CASE p = "1" -> [type |-> "number", text |-> "1"]
      [] p = "\"a\"" -> [type |-> "string", text |-> "a"]
      [] OTHER -> [type |-> "string", text |-> p]

\* C15: on a message event every message-subscriber receives the parsed value
\* when the payload is valid JSON text and the raw payload otherwise; the
\* message is dropped for no subscriber.
C15_ParsedOrRawToAll ==
    last.op = "handleMessage"
      => \A h \in Range(handlers["message"]) :
            \E i \in 1..Len(last.invoked) :
                /\ last.invoked[i].h = h
                /\ last.invoked[i].arg = Delivered(last.data)

\* C16: send(payload) while the transport is absent or not Open forwards
\* nothing to the transport, raises no error and leaves transport handle,
\* transports, timers, attempt counter and isManualClose unchanged.
C16_SendWhileNotOpenDrops ==
    [][(last'.op = "send" /\ getReadyState # OPEN)
         => /\ last'.sent = <<>>
            /\ ~last'.threw
            /\ UNCHANGED <<ws, readyState, bound, heartbeatTimer,
                           reconnectTimer, timeouts, intervals,
                           currentReconnectAttempts, isManualClose>>]_vars

\* C16 witness: send() has just returned on a client whose transport exists
\* but is still connecting, with a retry timer held
C16_Witness ==
    /\ last.op = "send"
    /\ last.sent = <<>>
    /\ ws # Null
    /\ readyState[ws] = CONNECTING
    /\ reconnectTimer # Null

\* C17: a transport error event only notifies the error-subscribers: it
\* leaves transport handle, heartbeat timer, reconnect timer, attempt counter
\* and isManualClose unchanged, calls no reconnect and schedules no retry.
C17_ErrorEventIsFrame ==
    [][last'.op = "handleError"
         => /\ UNCHANGED <<ws, bound, heartbeatTimer, reconnectTimer,
                           timeouts, intervals, currentReconnectAttempts,
                           isManualClose>>
            /\ ~last'.reconnectCalled
            /\ ~last'.scheduled
            /\ last'.sent = <<>>
            /\ \A i \in 1..Len(last'.invoked) :
                  last'.invoked[i].h \in Range(handlers["error"])]_vars

\* C17 witness: an error event was handled while a heartbeat was running and
\* attempts were still available
C17_Witness ==
    /\ last.op = "handleError"
    /\ heartbeatTimer # Null
    /\ currentReconnectAttempts < reconnectAttempts
    /\ ~isManualClose
    /\ timeouts = {}

\* C18: whenever the client's current transport is Open (its open event has
\* been handled) a heartbeat timer is live, in every interleaving.
C18_HeartbeatWhileOpen ==
    (ws # Null /\ readyState[ws] = OPEN)
      => /\ heartbeatTimer # Null
         /\ heartbeatTimer \in intervals

\* C19: the client owns at most one transport at a time: at most one
\* transport that is not yet closed has its callbacks bound to the client.
C19_OneBoundTransport ==
    Cardinality({s \in bound : readyState[s] # CLOSED}) <= 1

\* C20: download(url) resolves with the response body Blob whenever the HTTP
\* request itself succeeds; the response interceptor does not turn a
\* successful blob download into a rejection.
C20_DownloadResolvesBlob ==
    (http.phase = "settled" /\ http.method = "download"
       /\ StatusOk(http.status))
      => /\ http.settled = "resolved"
         /\ http.value = "blob"

====
